---- MODULE Spec2Model ----
(***************************************************************************)
(* Lennard-Jones Metropolis Monte Carlo sampler of                         *)
(* src/blog/OldSimulations/matter.py.                                      *)
(*                                                                         *)
(* Numbers.  Lengths are counted in units of the smallest position         *)
(* increment.  Coordinates are IEEE binary floating-point values; the      *)
(* model keeps the format's structure (a fixed number of significand bits, *)
(* spacing that doubles with every binade, round-to-nearest-even) with a   *)
(* 2-bit significand, so that the representable coordinates of [0, L] are  *)
(* 0 1 2 3 4 6 8 for L = 8.  Energies are fixed-point numbers with FP      *)
(* units per unit of epsilon; an energy that the code computes from a      *)
(* zero separation is the IEEE NaN.                                        *)
(***************************************************************************)
EXTENDS Integers, FiniteSets, Sequences, TLC

\* ------------------------------------------------------------------ bounds
N == 2
n_steps == 1
n_sample == 1
n_sweep == 1

\* ------------------------------------------------- simulation parameters
L == 8
epsilon == 1
sigma == 2
beta == 1
delta == 1
dr_num == 3
dr_den == 2
r_cut == (5 * sigma) \div 2

Particles == 0 .. (N - 1)

\* ------------------------------------------------------- float arithmetic
Abs(x) == IF x < 0 THEN -x ELSE x

\* An operator of this module that uses an argument more than once first
\* takes the argument's value (CHOOSE out \in {f(arg) : arg \in {x}} : TRUE is
\* f(x) with x evaluated once), as the interpreter evaluates the arguments of
\* a call before the call.

RECURSIVE Pow(_, _)
Pow(b, e) == IF e = 0 THEN 1 ELSE b * Pow(b, e - 1)

\* Fixed-point units per unit of energy (and per unit of probability).
FP == Pow(10, 3)

\* Spacing of the representable values around magnitude a >= 0.
RECURSIVE Ulp(_)
Ulp(a) == IF a < 4 THEN 1 ELSE 2 * Ulp(a \div 2)

\* Round-to-nearest, ties-to-even, of the exact value x.
fl(x) ==
    LET nearest(v) ==
            LET s == Ulp(Abs(v))
                lo == (v \div s) * s
                rem == v - lo
            IN  IF rem = 0 THEN v
                ELSE IF 2 * rem < s THEN lo
                ELSE IF 2 * rem > s THEN lo + s
                ELSE IF (lo \div s) % 2 = 0 THEN lo ELSE lo + s
    IN  CHOOSE out \in {nearest(arg) : arg \in {x}} : TRUE

Representable(x) == fl(x) = x

\* a % b on floats, b > 0: the exact remainder with the sign of a, and b
\* added (one rounded addition) when that remainder is negative.
FloatMod(a, b) ==
    LET remainder(x, y) ==
            LET m == IF x >= 0 THEN x % y ELSE -((-x) % y)
            IN  IF m < 0 THEN fl(m + y) ELSE m
    IN  CHOOSE out \in {remainder(arg[1], arg[2]) : arg \in {<<a, b>>}} : TRUE

\* np.random.uniform(lo, hi): lo + (hi - lo) * u with u in [0, 1).
Uniform(lo, hi) == {x \in lo .. (hi - 1) : Representable(x)}

Moves == Uniform(-delta, delta) \X Uniform(-delta, delta)

\* positions[i] += move ; positions[i] %= L, for one position.
TrialPosition(p, m) ==
    << FloatMod(fl(p[1] + m[1]), L), FloatMod(fl(p[2] + m[2]), L) >>

\* Lines 45-47: the update touches row k of the array only.
DisplacedAll(pos, k, m) == [q \in DOMAIN pos |-> TrialPosition(pos[q], m)]
Displaced(pos, k, m) == [pos EXCEPT ![k] = TrialPosition(pos[k], m)]

\* Line 41: old_pos = positions[i].copy() is a copy, so the value saved is
\* the row before the update (cur), not the row after it (later).
SavedPosition(cur, later) == cur

\* ------------------------------------------------------- minimum image
\* The float quotient a / b, b > 0, counted in units of 1 / QuotUnit: the
\* exact quotient rounded to the significand (nearest, ties to even).
QuotUnit == Pow(2, 4)

FloatDiv(a, b) ==
    LET quotient(x, y) ==
            LET s == Ulp((Abs(x) * QuotUnit) \div y)
                lo == ((x * QuotUnit) \div (y * s)) * s
                rem == x * QuotUnit - lo * y
            IN  IF rem = 0 THEN lo
                ELSE IF 2 * rem < s * y THEN lo
                ELSE IF 2 * rem > s * y THEN lo + s
                ELSE IF (lo \div s) % 2 = 0 THEN lo ELSE lo + s
    IN  CHOOSE out \in {quotient(arg[1], arg[2]) : arg \in {<<a, b>>}} : TRUE

\* np.rint of the float q / QuotUnit: nearest integer, halves to even.
rintTrunc(q) == IF q >= 0 THEN q \div QuotUnit ELSE -((-q) \div QuotUnit)
rint(q) ==
    LET nearest(v) ==
            LET n == v \div QuotUnit
                rem == v - n * QuotUnit
            IN  IF 2 * rem < QuotUnit THEN n
                ELSE IF 2 * rem > QuotUnit THEN n + 1
                ELSE IF n % 2 = 0 THEN n ELSE n + 1
    IN  CHOOSE out \in {nearest(arg) : arg \in {q}} : TRUE

\* r - L * np.rint(r / L), one axis.
minimum_image_none(r, box) == r
minimum_image(r, box) ==
    LET image(x, y) == fl(x - fl(y * rint(FloatDiv(x, y))))
    IN  CHOOSE out \in {image(arg[1], arg[2]) : arg \in {<<r, box>>}} : TRUE

\* Squared norm of minimum_image(a - b, L) for points a and b.
Dist2(a, b) ==
    LET norm2(dx, dy) == dx * dx + dy * dy
    IN  CHOOSE out \in
            {norm2(arg[1], arg[2]) :
                arg \in {<< minimum_image(fl(a[1] - b[1]), L),
                            minimum_image(fl(a[2] - b[2]), L) >>}} : TRUE

\* ------------------------------------------------------------ potential
NaN == [nan |-> TRUE, val |-> 0]
Num(v) == [nan |-> FALSE, val |-> v]
FSub(a, b) == IF a.nan \/ b.nan THEN NaN ELSE Num(a.val - b.val)
FAdd(a, b) == IF a.nan \/ b.nan THEN NaN ELSE Num(a.val + b.val)
\* a == b as IEEE decides it: false when either is NaN.
FEq(a, b) == ~a.nan /\ ~b.nan /\ a.val = b.val
\* dE > 0 as IEEE decides it: false when dE is NaN.
Gt0(a) == ~a.nan /\ a.val > 0

\* 4 * epsilon * ((sigma / r)**12 - (sigma / r)**6), r given by r2 = r*r > 0.
LJRaw(r2) ==
    (4 * epsilon * FP * Pow(sigma * sigma, 6)) \div Pow(r2, 6)
    - (4 * epsilon * FP * Pow(sigma * sigma, 3)) \div Pow(r2, 3)

\* lj_potential without the cutoff branch, and without the shift.
lj_potential_nocut(r2) ==
    IF r2 = 0 THEN NaN ELSE Num(LJRaw(r2) - LJRaw(r_cut * r_cut))
lj_potential_unshifted(r2) ==
    IF r2 < r_cut * r_cut
    THEN IF r2 = 0 THEN NaN ELSE Num(LJRaw(r2))
    ELSE Num(0)

lj_potential(r2) ==
    LET U(v) ==
            IF v < r_cut * r_cut
            THEN IF v = 0 THEN NaN
                 ELSE Num(LJRaw(v) - LJRaw(r_cut * r_cut))
            ELSE Num(0)
    IN  CHOOSE out \in {U(arg) : arg \in {r2}} : TRUE

\* dE of lines 50-61: the sum over j != k, in index order, of
\* lj_potential(r_new) - lj_potential(r_old); pos holds the trial position
\* of particle k and old is its saved position.
RECURSIVE DeltaEFrom(_, _, _, _)
DeltaEFrom(pos, k, old, jj) ==
    IF jj < 0 THEN Num(0)
    ELSE IF jj = k THEN DeltaEFrom(pos, k, old, jj - 1)
    ELSE FAdd(DeltaEFrom(pos, k, old, jj - 1),
              FSub(lj_potential(Dist2(pos[k], pos[jj])),
                   lj_potential(Dist2(old, pos[jj]))))

DeltaEBelow(pos, k, old) == DeltaEFrom(pos, k, old, k - 1)
DeltaE(pos, k, old) ==
    LET total(p, q, o) == DeltaEFrom(p, q, o, Cardinality(DOMAIN p) - 1)
    IN  CHOOSE out \in {total(arg[1], arg[2], arg[3]) :
                      arg \in {<<pos, k, old>>}} : TRUE

\* np.exp(-x / FP) in fixed point: 2 ** -(x / ln 2), the fractional power
\* interpolated linearly; 0 once the result underflows.  For x <= 0 the
\* value is >= 1, above every draw of [0, 1): FP stands for it.
ExpNeg(x) ==
    IF x <= 0 THEN FP
    ELSE IF x >= 20 * FP THEN 0
    ELSE LET t == (x * 1000) \div 693
             q == t \div FP
             f == t % FP
         IN  (FP - f \div 2) \div Pow(2, q)

\* np.random.rand(): a value of [0, 1), in fixed point.
Rand01 == {0, FP - 1}

\* The condition of lines 64 and 95: dE > 0 and rand() >= exp(-beta * dE).
RejectsStrict(e, draw) == Gt0(e) /\ draw > ExpNeg(beta * e.val)
RejectsDownhill(e, draw) == ~e.nan /\ e.val < 0 /\ draw >= ExpNeg(-beta * e.val)
Rejects(e, draw) == Gt0(e) /\ draw >= ExpNeg(beta * e.val)

\* ------------------------------------------------------------ histogram
CeilDiv(a, b) == -((-a) \div b)

\* len(np.arange(0, box / 2, num / den)).
ArangeLen(box, num, den) == CeilDiv(box * den, 2 * num)

\* len(g_hist) = len(r_bins) - 1.
HistLenEdges(box, num, den) == ArangeLen(box, num, den)
HistLen(box, num, den) == ArangeLen(box, num, den) - 1

\* int(r / dr) for r = sqrt(r2), dr = num / den.
RECURSIVE BinFrom(_, _, _, _)
BinFrom(r2, num, den, k) ==
    IF (k + 1) * (k + 1) * num * num <= r2 * den * den
    THEN BinFrom(r2, num, den, k + 1)
    ELSE k

BinIndex(r2, num, den) == BinFrom(r2, num, den, 0)

\* Lines 101-108 for one pair at squared distance r2.
BinnedOnce(hist, r2) ==
    IF 4 * r2 < L * L
    THEN LET bin_index == BinIndex(r2, dr_num, dr_den)
         IN  IF bin_index < Cardinality(DOMAIN hist)
             THEN [hist EXCEPT ![bin_index] = @ + 1]
             ELSE hist
    ELSE hist

BinnedMinus(hist, r2) ==
    IF 4 * r2 < L * L
    THEN LET bin_index == BinIndex(r2, dr_num, dr_den)
         IN  IF bin_index < Cardinality(DOMAIN hist)
             THEN [hist EXCEPT ![bin_index] = @ - 2]
             ELSE hist
    ELSE hist

BinnedTwice(hist, r2) ==
    IF 4 * r2 < L * L
    THEN LET bin_index == BinIndex(r2, dr_num, dr_den)
         IN  IF bin_index < Cardinality(DOMAIN hist)
             THEN [hist EXCEPT ![bin_index] = @ + 4]
             ELSE hist
    ELSE hist

Binned(hist, r2) ==
    LET counted(h, v) ==
            IF 4 * v < L * L
            THEN LET bin_index == BinIndex(v, dr_num, dr_den)
                 IN  IF bin_index < Cardinality(DOMAIN h)
                     THEN [h EXCEPT ![bin_index] = @ + 2]
                     ELSE h
            ELSE h
    IN  CHOOSE out \in {counted(arg[1], arg[2]) : arg \in {<<hist, r2>>}} : TRUE

\* ------------------------------------------------------------------ state
VARIABLES
    positions,  \* particle index -> <<x, y>>
    i, j,       \* the loop variables i and j
    old_pos,    \* the saved position of the trial
    move,       \* the trial displacement
    dE,         \* the energy change of the trial
    u,          \* the acceptance draw of the trial just decided (0 if none)
    step,       \* completed iterations of the current trial-move loop
    sample,     \* completed iterations of the sampling loop
    g_hist,     \* bin index -> count; empty before line 71
    n_configs,
    pc,         \* position in the script
    before,     \* history: the ensemble when the current trial, or the
                \* current measurement, began
    outcome,    \* history: how the last trial ended, while i still names it
    hist0,      \* history: g_hist when the current measurement began
    g_sim,      \* bin index -> normalized value; empty before line 112
    moves,      \* history: trial moves decided so far
    measured,   \* history: measurements (pair loops) finished so far
    g_theory,   \* grid index -> low-density value; empty before line 125
    r_centers,  \* bin index -> bin center; empty before line 129
    \* one evaluation of the dE sum on a configuration of its own
    e_before, e_after, e_k, e_dE, e_done,
    \* one evaluation of minimum_image on a displacement vector
    mi_r, mi_box, mi_out, mi_done,
    \* one evaluation of the histogram length
    b_box, b_num, b_den, b_len, b_done,
    \* one evaluation of lj_potential at two squared distances
    p_r2, p_near, p_out, p_out_near, p_done,
    \* one evaluation of the normalizer
    nm_hist, nm_configs, nm_num, nm_den, nm_out, nm_done,
    \* one call of a function of the scripts on arguments of its own: the
    \* arguments, the value returned, and whether the call has returned
    call_in, call_out, call_done

runVars == << positions, i, j, old_pos, move, dE, u, step, sample, g_hist,
              n_configs, pc, before, outcome, hist0, g_sim, moves, measured,
              g_theory, r_centers >>
energyVars == << e_before, e_after, e_k, e_dE, e_done >>
imageVars == << mi_r, mi_box, mi_out, mi_done >>
binVars == << b_box, b_num, b_den, b_len, b_done >>
potVars == << p_r2, p_near, p_out, p_out_near, p_done >>
normVars == << nm_hist, nm_configs, nm_num, nm_den, nm_out, nm_done >>
callVars == << call_in, call_out, call_done >>
vars == << runVars, energyVars, imageVars, binVars, potVars, normVars,
           callVars >>

\* Line 36: positions = np.random.uniform(0, L, (N, 2)).  The initial
\* configurations explored: N consecutive sites of this cycle, from any start.
InitSites == << <<0, 0>>, <<0, 0>>, <<1, 3>>, <<6, 4>> >>

InitPositions ==
    { [k \in Particles |-> InitSites[((o + k) % Len(InitSites)) + 1]] :
        o \in 0 .. (Len(InitSites) - 1) }

RunInit ==
    /\ positions \in InitPositions
    /\ i = 0 /\ j = 0
    /\ old_pos = <<0, 0>>
    /\ move = <<0, 0>>
    /\ dE = Num(0)
    /\ u = 0
    /\ step = 0
    /\ sample = 0
    /\ g_hist = << >>
    /\ n_configs = 0
    /\ pc = "equil"
    /\ before = positions
    /\ outcome = "none"
    /\ hist0 = << >>
    /\ g_sim = << >>
    /\ moves = 0
    /\ measured = 0
    /\ g_theory = << >>
    /\ r_centers = << >>

\* Lines 40-61 (and 78-94): choose a particle, save its position, displace
\* and wrap it in place, compute dE.
Propose(next) ==
    \E k \in Particles, m \in Moves :
        LET trial == Displaced(positions, k, m)
            saved == SavedPosition(positions[k], trial[k])
        IN  /\ i' = k
            /\ old_pos' = saved
            /\ move' = m
            /\ positions' = trial
            /\ dE' = DeltaE(trial, k, saved)
            /\ before' = positions
            /\ outcome' = "pending"
            /\ pc' = next
            /\ u' = 0
            /\ UNCHANGED << j, step, sample, g_hist, n_configs, hist0,
                            g_sim, moves, measured, g_theory, r_centers >>

\* Line 65: positions[i] = old_pos.
RestoredLastRow(pos, k, old) == [pos EXCEPT ![Cardinality(DOMAIN pos) - 1] = old]
Restored(pos, k, old) == [pos EXCEPT ![k] = old]

\* The for loops of lines 39 and 77 advance to the next iteration whether
\* the trial was rejected or not.
NextStepSkip(s, rejected) == IF rejected THEN s + 2 ELSE s + 1
NextStep(s, rejected) == s + 1

\* Lines 64-65 (and 95-96).  The draw is consumed only when dE > 0 (the
\* condition short-circuits).
Decide(next) ==
    /\ \E draw \in Rand01 :
          /\ u' = IF Gt0(dE) THEN draw ELSE u
          /\ IF Rejects(dE, draw)
             THEN /\ positions' = Restored(positions, i, old_pos)
                  /\ outcome' = "rejected"
             ELSE /\ UNCHANGED positions
                  /\ outcome' = "accepted"
          /\ step' = NextStep(step, Rejects(dE, draw))
    /\ moves' = moves + 1
    /\ pc' = next
    /\ UNCHANGED << i, j, old_pos, move, dE, sample, g_hist, n_configs, before,
                    hist0, g_sim, measured, g_theory, r_centers >>

EquilPropose == pc = "equil" /\ step < n_steps /\ Propose("equil_decide")
EquilDecide == pc = "equil_decide" /\ Decide("equil")

\* np.zeros(len): a histogram of len bins.
ones(len) == [b \in 0 .. (len - 1) |-> 1]
zeros(len) == [b \in 0 .. (len - 1) |-> 0]

\* Lines 68-72.
BeginSampling ==
    /\ pc = "equil" /\ step = n_steps
    /\ g_hist' = zeros(HistLen(L, dr_num, dr_den))
    /\ n_configs' = 0
    /\ sample' = 0
    /\ step' = 0
    /\ pc' = IF n_sample > 0 THEN "sweep" ELSE "normalize"
    /\ UNCHANGED << positions, i, j, old_pos, move, dE, u, before, outcome,
                    hist0, g_sim, moves, measured, g_theory, r_centers >>

SweepPropose == pc = "sweep" /\ step < n_sweep /\ Propose("sweep_decide")
SweepDecide == pc = "sweep_decide" /\ Decide("sweep")

\* Line 99-100: entering the pair loops.
BeginMeasure ==
    /\ pc = "sweep" /\ step = n_sweep
    /\ i' = 0 /\ j' = 1
    /\ pc' = "measure"
    /\ outcome' = "none"
    /\ hist0' = g_hist
    /\ before' = positions
    /\ u' = 0
    /\ UNCHANGED << positions, old_pos, move, dE, step, sample, g_hist,
                    n_configs, g_sim, moves, measured, g_theory, r_centers >>

\* Lines 101-103: disp is a new array (positions[i] - positions[j], then the
\* result of minimum_image), so the pair's rows of positions are not written.
AfterMeasureInPlace(pos, a, b) ==
    [pos EXCEPT ![a] = << minimum_image(fl(pos[a][1] - pos[b][1]), L),
                          minimum_image(fl(pos[a][2] - pos[b][2]), L) >>]
AfterMeasure(pos, a, b) == pos

\* Lines 101-108 for the pair (i, j), then the next pair.
BinPair ==
    /\ pc = "measure"
    /\ positions' = AfterMeasure(positions, i, j)
    /\ g_hist' = Binned(g_hist, Dist2(positions[i], positions[j]))
    /\ IF j + 1 < N
       THEN i' = i /\ j' = j + 1 /\ pc' = "measure"
       ELSE IF i + 1 < N - 1
            THEN i' = i + 1 /\ j' = i + 2 /\ pc' = "measure"
            ELSE i' = i /\ j' = j /\ pc' = "count"
    /\ measured' = IF j + 1 < N \/ i + 1 < N - 1 THEN measured ELSE measured + 1
    /\ UNCHANGED << old_pos, move, dE, u, step, sample, n_configs,
                    before, outcome, hist0, g_sim, moves, g_theory, r_centers >>

\* Line 109: n_configs += 1.
CountedTwice(n) == n + 2
Counted(n) == n + 1

\* Line 109, and the head of the sampling loop.
EndSample ==
    /\ pc = "count"
    /\ n_configs' = Counted(n_configs)
    /\ sample' = sample + 1
    /\ step' = 0
    /\ pc' = IF sample + 1 < n_sample THEN "sweep" ELSE "normalize"
    /\ UNCHANGED << positions, i, j, old_pos, move, dE, u, g_hist, before,
                    outcome, hist0, g_sim, moves, measured, g_theory,
                    r_centers >>

\* ------------------------------------------------------------ normalizer
\* np.pi in fixed point.
PiFP == (355 * FP) \div 113

\* rho = N / L ** 2 (lines 113-114), in fixed point.
Rho(n, box) == (n * FP) \div (box * box)

\* r_lower = i * dr and r_upper = (i + 1) * dr (lines 116-117), counted in
\* units of 1 / den for dr = num / den.
r_lower(b, num) == b * num
r_upper_next(b, num) == (b + 2) * num
r_upper(b, num) == (b + 1) * num

\* shell_area = np.pi * (r_upper**2 - r_lower**2) (line 118), in fixed point;
\* a difference of squares too small for the format becomes 0.
shell_area(b, num, den) ==
    LET diff == (FP * (r_upper(b, num) * r_upper(b, num)
                       - r_lower(b, num) * r_lower(b, num))) \div (den * den)
    IN  (PiFP * diff) \div FP

\* ideal_pairs = shell_area * rho (line 119), in fixed point.
ideal_pairs(b, num, den, n, box) ==
    (shell_area(b, num, den) * Rho(n, box)) \div FP

\* The float quotient a / (d / FP) of line 121, in fixed point.  A zero
\* divisor raises nothing in numpy: the quotient is inf, or nan for 0 / 0.
Quotient(a, d) ==
    IF d = 0
    THEN [kind |-> IF a = 0 THEN "nan" ELSE "inf", val |-> 0, divisor |-> d]
    ELSE [kind |-> "finite", val |-> (a * FP * FP) \div d, divisor |-> d]

\* Lines 112-121: g_sim for the histogram hist.
Normalized(hist, n_conf, n, box, num, den) ==
    [b \in DOMAIN hist |->
        Quotient(hist[b], n_conf * n * ideal_pairs(b, num, den, n, box))]

\* ------------------------------------------------------ the two curves
TheoryPoints == 3

\* np.linspace(lo, hi, n): n evenly spaced values from lo to hi, both ends
\* included.
linspace(lo, hi, n) == [k \in 0 .. (n - 1) |-> lo + (k * (hi - lo)) \div (n - 1)]

\* Line 124: r_values = np.linspace(0.9 * sigma, L / 2, ...), counted in
\* tenths of the unit of length.
r_values_to_particle == linspace(9 * sigma, 10 * positions[0][1], TheoryPoints)
r_values == linspace(9 * sigma, 5 * L, TheoryPoints)

\* np.exp(-beta * U) for the potential value U, in fixed point.
BoltzmannFactor(U) ==
    IF U.nan THEN NaN
    ELSE IF U.val >= 0 THEN Num(ExpNeg(beta * U.val))
    ELSE Num((FP * FP) \div ExpNeg(-beta * U.val))

\* Line 125: g_theory.  lj_potential takes the squared distance in the unit
\* of the squared separations (r * r of a grid value, rounded down).
TheoryCurve ==
    [k \in DOMAIN r_values |->
        BoltzmannFactor(lj_potential((r_values[k] * r_values[k]) \div 100))]

\* Line 129: r_centers = (np.arange(len) + 0.5) * dr for dr = num / den,
\* counted in units of 1 / (2 * den).
LeftEdges(len, num) == [b \in 0 .. (len - 1) |-> 2 * b * num]
Centers(len, num) == [b \in 0 .. (len - 1) |-> (2 * b + 1) * num]

\* Lines 112-129 of the run: g_sim, g_theory and r_centers.  The loop of line
\* 115 reuses the variable i.
Normalize ==
    /\ pc = "normalize"
    /\ g_sim' = Normalized(g_hist, n_configs, N, L, dr_num, dr_den)
    /\ g_theory' = TheoryCurve
    /\ r_centers' = Centers(Cardinality(DOMAIN g_sim'), dr_num)
    /\ i' = IF g_hist = << >> THEN i ELSE Cardinality(DOMAIN g_hist) - 1
    /\ outcome' = "none"
    /\ hist0' = g_hist
    /\ pc' = "done"
    /\ UNCHANGED << positions, j, old_pos, move, dE, u, step, sample, g_hist,
                    n_configs, before, moves, measured >>

\* --------------------------------------------- the dE sum on its own
EnergyParticles == 3
EnergySites == {<<0, 0>>, <<2, 1>>, <<1, 3>>, <<6, 4>>}

\* The energy of a configuration: lj_potential summed over the unordered
\* pairs at their minimum-image distance.
RECURSIVE SumPairs(_, _)
SumPairs(pos, pairs) ==
    IF pairs = {} THEN Num(0)
    ELSE LET pr == CHOOSE x \in pairs : TRUE
         IN  FAdd(lj_potential(Dist2(pos[pr[1]], pos[pr[2]])),
                  SumPairs(pos, pairs \ {pr}))

PairsOf(pos) == {pr \in (DOMAIN pos) \X (DOMAIN pos) : pr[1] < pr[2]}
TotalEnergy(pos) == SumPairs(pos, PairsOf(pos))

EnergyIdle ==
    /\ e_before = << >> /\ e_after = << >> /\ e_k = 0
    /\ e_dE = Num(0) /\ e_done = FALSE

EnergyInit ==
    /\ e_before \in [0 .. (EnergyParticles - 1) -> EnergySites]
    /\ e_after = e_before /\ e_k = 0
    /\ e_dE = Num(0) /\ e_done = FALSE

\* Lines 40-61 on the configuration e_before.
EnergyTrial ==
    /\ ~e_done
    /\ \E k \in DOMAIN e_before, m \in Moves :
          LET trial == Displaced(e_before, k, m)
              saved == SavedPosition(e_before[k], trial[k])
          IN  /\ e_after' = trial
              /\ e_k' = k
              /\ e_dE' = DeltaE(trial, k, saved)
    /\ e_done' = TRUE
    /\ UNCHANGED e_before

\* ------------------------------------------- minimum_image on its own
MaxBox == 8
MaxDisp == 12

Floats(lo, hi) == {x \in lo .. hi : Representable(x)}

ImageIdle ==
    /\ mi_r = <<0, 0>> /\ mi_box = 1 /\ mi_out = <<0, 0>> /\ mi_done = FALSE

ImageInit ==
    /\ mi_box \in Floats(1, MaxBox)
    /\ mi_r \in Floats(-MaxDisp, MaxDisp) \X Floats(-MaxDisp, MaxDisp)
    /\ mi_out = <<0, 0>> /\ mi_done = FALSE

\* Lines 28-29 on the vector mi_r: the expression acts on each axis.
ImageApply ==
    /\ ~mi_done
    /\ mi_out' = << minimum_image(mi_r[1], mi_box),
                    minimum_image(mi_r[2], mi_box) >>
    /\ mi_done' = TRUE
    /\ UNCHANGED << mi_r, mi_box >>

\* --------------------------------------- the histogram length on its own
MaxBoxLen == 12
MaxDrNum == 5
MaxDrDen == 2

BinsIdle ==
    /\ b_box = 1 /\ b_num = 1 /\ b_den = 1 /\ b_len = 0 /\ b_done = FALSE

BinsInit ==
    /\ b_box \in 1 .. MaxBoxLen
    /\ b_num \in 1 .. MaxDrNum
    /\ b_den \in 1 .. MaxDrDen
    /\ b_len = 0 /\ b_done = FALSE

\* Lines 70-71 for box length b_box and bin width b_num / b_den.
BinsApply ==
    /\ ~b_done
    /\ b_len' = HistLen(b_box, b_num, b_den)
    /\ b_done' = TRUE
    /\ UNCHANGED << b_box, b_num, b_den >>

\* ------------------------------------------- lj_potential on its own
MaxR2 == 30

PotIdle ==
    /\ p_r2 = 1 /\ p_near = 1 /\ p_out = Num(0) /\ p_out_near = Num(0)
    /\ p_done = FALSE

PotInit ==
    /\ p_r2 \in 0 .. MaxR2
    /\ p_near \in 0 .. MaxR2
    /\ p_out = Num(0) /\ p_out_near = Num(0) /\ p_done = FALSE

\* Lines 18-25 at the distances sqrt(p_r2) and sqrt(p_near).
PotApply ==
    /\ ~p_done
    /\ p_out' = lj_potential(p_r2)
    /\ p_out_near' = lj_potential(p_near)
    /\ p_done' = TRUE
    /\ UNCHANGED << p_r2, p_near >>

\* ----------------------------------------------- the normalizer on its own
MaxNormBins == 2
MaxConfigs == 2
MaxNormNum == 3
MaxNormDen == 10

NormIdle ==
    /\ nm_hist = << >> /\ nm_configs = 1 /\ nm_num = 1 /\ nm_den = 1
    /\ nm_out = << >> /\ nm_done = FALSE

NormInit ==
    /\ \E len \in 1 .. MaxNormBins : nm_hist \in [0 .. (len - 1) -> {0, 2}]
    /\ nm_configs \in 1 .. MaxConfigs
    /\ nm_num \in 1 .. MaxNormNum
    /\ nm_den \in 1 .. MaxNormDen
    /\ nm_out = << >> /\ nm_done = FALSE

\* Lines 112-121 on the histogram nm_hist with dr = nm_num / nm_den.
NormApply ==
    /\ ~nm_done
    /\ nm_out' = Normalized(nm_hist, nm_configs, N, L, nm_num, nm_den)
    /\ nm_done' = TRUE
    /\ UNCHANGED << nm_hist, nm_configs, nm_num, nm_den >>

\* ---------------------------------------------------------- specifications
CallIdle == call_in = << >> /\ call_out = << >> /\ call_done = FALSE

Init ==
    /\ RunInit /\ EnergyIdle /\ ImageIdle /\ BinsIdle /\ PotIdle /\ NormIdle
    /\ CallIdle
RunOnly ==
    UNCHANGED << energyVars, imageVars, binVars, potVars, normVars, callVars >>

Next ==
    \/ EquilPropose /\ RunOnly
    \/ EquilDecide /\ RunOnly
    \/ BeginSampling /\ RunOnly
    \/ SweepPropose /\ RunOnly
    \/ SweepDecide /\ RunOnly
    \/ BeginMeasure /\ RunOnly
    \/ BinPair /\ RunOnly
    \/ EndSample /\ RunOnly
    \/ Normalize /\ RunOnly
Spec == Init /\ [][Next]_vars

RunIdle ==
    /\ positions = [k \in Particles |-> <<0, 0>>]
    /\ i = 0 /\ j = 0 /\ old_pos = <<0, 0>> /\ move = <<0, 0>>
    /\ dE = Num(0) /\ u = 0 /\ step = 0 /\ sample = 0
    /\ g_hist = << >> /\ n_configs = 0 /\ pc = "idle"
    /\ before = positions /\ outcome = "none" /\ hist0 = << >>
    /\ g_sim = << >> /\ moves = 0 /\ measured = 0
    /\ g_theory = << >> /\ r_centers = << >>

EnergyNext ==
    /\ EnergyTrial
    /\ UNCHANGED << runVars, imageVars, binVars, potVars, normVars, callVars >>
EnergyStart ==
    /\ RunIdle /\ EnergyInit /\ ImageIdle /\ BinsIdle /\ PotIdle /\ NormIdle
    /\ CallIdle
SpecEnergy == EnergyStart /\ [][EnergyNext]_vars

ImageNext ==
    /\ ImageApply
    /\ UNCHANGED << runVars, energyVars, binVars, potVars, normVars, callVars >>
ImageStart ==
    /\ RunIdle /\ EnergyIdle /\ ImageInit /\ BinsIdle /\ PotIdle /\ NormIdle
    /\ CallIdle
SpecImage == ImageStart /\ [][ImageNext]_vars

BinsNext ==
    /\ BinsApply
    /\ UNCHANGED << runVars, energyVars, imageVars, potVars, normVars,
                    callVars >>
BinsStart ==
    /\ RunIdle /\ EnergyIdle /\ ImageIdle /\ BinsInit /\ PotIdle /\ NormIdle
    /\ CallIdle
SpecBins == BinsStart /\ [][BinsNext]_vars

PotNext ==
    /\ PotApply
    /\ UNCHANGED << runVars, energyVars, imageVars, binVars, normVars,
                    callVars >>
PotStart ==
    /\ RunIdle /\ EnergyIdle /\ ImageIdle /\ BinsIdle /\ PotInit /\ NormIdle
    /\ CallIdle
SpecPotential == PotStart /\ [][PotNext]_vars

NormNext ==
    /\ NormApply
    /\ UNCHANGED << runVars, energyVars, imageVars, binVars, potVars,
                    callVars >>
NormStart ==
    /\ RunIdle /\ EnergyIdle /\ ImageIdle /\ BinsIdle /\ PotIdle /\ NormInit
    /\ CallIdle
SpecNorm == NormStart /\ [][NormNext]_vars

\* The other parts at rest while one function is called on its own.
RestIdle ==
    RunIdle /\ EnergyIdle /\ ImageIdle /\ BinsIdle /\ PotIdle /\ NormIdle
CallOnly ==
    UNCHANGED << runVars, energyVars, imageVars, binVars, potVars, normVars >>

\* ------------------------------------------- the trial proposal on its own
MaxDelta == 2

\* np.random.uniform(-d, d, 2), and the same range with its end d included.
MovesWithin(d) == Uniform(-d, d) \X Uniform(-d, d)
MovesUpTo(d) == Floats(-d, d) \X Floats(-d, d)

ProposalInit ==
    /\ call_in \in { [fn |-> "proposal", p |-> p, d |-> d] :
                       p \in Floats(0, L - 1) \X Floats(0, L - 1),
                       d \in 1 .. MaxDelta }
    /\ call_out = << >> /\ call_done = FALSE

\* Lines 40-47 for a particle at call_in.p and delta = call_in.d.
ProposalApply ==
    /\ ~call_done
    /\ \E k \in Particles, m \in MovesWithin(call_in.d) :
          call_out' = [i |-> k, move |-> m, p |-> TrialPosition(call_in.p, m)]
    /\ call_done' = TRUE
    /\ UNCHANGED call_in

ProposalNext == ProposalApply /\ CallOnly
ProposalStart == RestIdle /\ ProposalInit
SpecProposal == ProposalStart /\ [][ProposalNext]_vars

\* ------------------------------- a trial and its reverse on their own
\* np.random.rand() returns each value of [0, 1) of its grid with the same
\* probability: the number of draws, out of FP, on which a trial with energy
\* change e is kept by the condition of lines 64 and 95.
AllDraws == 0 .. (FP - 1)
Acceptance(e) == Cardinality({draw \in AllDraws : ~Rejects(e, draw)})

BalanceInit ==
    /\ call_in \in { [fn |-> "balance", s |-> c, d |-> d] :
                       c \in [0 .. (EnergyParticles - 1) -> EnergySites],
                       d \in 1 .. MaxDelta }
    /\ call_out = << >> /\ call_done = FALSE

\* Lines 40-64 on the configuration call_in.s: the trial, its dE, and the
\* probability that line 64 keeps it.
BalanceForward ==
    /\ ~call_done /\ call_out = << >>
    /\ \E k \in DOMAIN call_in.s, m \in MovesWithin(call_in.d) :
          LET trial == Displaced(call_in.s, k, m)
              saved == SavedPosition(call_in.s[k], trial[k])
              e == DeltaE(trial, k, saved)
          IN  call_out' = [s2 |-> trial, i |-> k, dE |-> e,
                           acc |-> Acceptance(e),
                           dE_back |-> Num(0), acc_back |-> 0]
    /\ UNCHANGED << call_in, call_done >>

\* Lines 40-64 on the configuration call_out.s2, for the draws that take
\* particle i back to where it was in call_in.s.
BalanceReverse ==
    /\ ~call_done /\ call_out # << >>
    /\ \E m \in MovesWithin(call_in.d) :
          LET k == call_out.i
              trial == Displaced(call_out.s2, k, m)
              saved == SavedPosition(call_out.s2[k], trial[k])
              e == DeltaE(trial, k, saved)
          IN  /\ trial = call_in.s
              /\ call_out' = [call_out EXCEPT !.dE_back = e,
                                              !.acc_back = Acceptance(e)]
    /\ call_done' = TRUE
    /\ UNCHANGED call_in

BalanceNext == (BalanceForward \/ BalanceReverse) /\ CallOnly
BalanceStart == RestIdle /\ BalanceInit
SpecBalance == BalanceStart /\ [][BalanceNext]_vars

\* ------------------------- the two copies of the trial move on their own
\* Lines 40-65: the trial of the equilibration loop on the configuration pos,
\* for particle k, displacement m and acceptance draw `draw`.
EquilTrial(pos, k, m, draw) ==
    LET trial == Displaced(pos, k, m)
        saved == SavedPosition(pos[k], trial[k])
        e == DeltaE(trial, k, saved)
        rejected == Rejects(e, draw)
    IN  [dE |-> e, rejected |-> rejected,
         positions |-> IF rejected THEN Restored(trial, k, saved) ELSE trial]

\* Lines 83-94: the dE sum of the sampling loop.
RECURSIVE SweepDeltaEFrom(_, _, _, _)
SweepDeltaEFrom(pos, k, old, jj) ==
    IF jj < 0 THEN Num(0)
    ELSE IF jj = k THEN SweepDeltaEFrom(pos, k, old, jj - 1)
    ELSE FAdd(SweepDeltaEFrom(pos, k, old, jj - 1),
              FSub(lj_potential(Dist2(pos[k], pos[jj])),
                   lj_potential(Dist2(old, pos[jj]))))

\* Line 95: dE > 0 and np.random.rand() >= np.exp(-beta * dE).
SweepRejects(e, draw) == Gt0(e) /\ draw >= ExpNeg(beta * e.val)

\* Lines 78-96: the trial of the sampling loop.
SweepTrial(pos, k, m, draw) ==
    LET old == pos[k]
        trial == [pos EXCEPT ![k] = << FloatMod(fl(pos[k][1] + m[1]), L),
                                       FloatMod(fl(pos[k][2] + m[2]), L) >>]
        e == SweepDeltaEFrom(trial, k, old, Cardinality(DOMAIN pos) - 1)
        rejected == SweepRejects(e, draw)
    IN  [dE |-> e, rejected |-> rejected,
         positions |-> IF rejected THEN [trial EXCEPT ![k] = old] ELSE trial]

LoopsInit ==
    /\ call_in \in { [fn |-> "trial", positions |-> c] :
                       c \in [0 .. (EnergyParticles - 1) -> EnergySites] }
    /\ call_out = << >> /\ call_done = FALSE

\* Both copies of the trial on the configuration call_in.positions, fed the
\* same random values.
LoopsApply ==
    /\ ~call_done
    /\ \E k \in DOMAIN call_in.positions, m \in Moves, draw \in Rand01 :
          call_out' = [i |-> k, move |-> m, u |-> draw,
                       equil |-> EquilTrial(call_in.positions, k, m, draw),
                       sweep |-> SweepTrial(call_in.positions, k, m, draw)]
    /\ call_done' = TRUE
    /\ UNCHANGED call_in

LoopsNext == LoopsApply /\ CallOnly
LoopsStart == RestIdle /\ LoopsInit
SpecLoops == LoopsStart /\ [][LoopsNext]_vars

\* ------------------------------------- the pair distance on its own
Shifts == {-1, 0, 1}

\* Lines 101-103 (and 53-59): the squared minimum-image distance, between u
\* and v, between v and u, between u displaced by whole box lengths and v,
\* and between u wrapped by `%= L` (line 47) and v.
DistanceInit ==
    /\ call_in \in { [fn |-> "distance", u |-> a, v |-> b, shift |-> sh] :
                       a \in Floats(-MaxDelta, L + MaxDelta)
                               \X Floats(-MaxDelta, L + MaxDelta),
                       b \in Floats(0, L - 1) \X Floats(0, L - 1),
                       sh \in Shifts \X Shifts }
    /\ call_out = << >> /\ call_done = FALSE

DistanceApply ==
    /\ ~call_done
    /\ LET a == call_in.u
           b == call_in.v
           moved == << fl(a[1] + call_in.shift[1] * L),
                       fl(a[2] + call_in.shift[2] * L) >>
           wrapped == << FloatMod(a[1], L), FloatMod(a[2], L) >>
       IN  call_out' = [uv |-> Dist2(a, b), vu |-> Dist2(b, a),
                        moved |-> moved, moved_v |-> Dist2(moved, b),
                        wrapped |-> wrapped, wrapped_v |-> Dist2(wrapped, b)]
    /\ call_done' = TRUE
    /\ UNCHANGED call_in

DistanceNext == DistanceApply /\ CallOnly
DistanceStart == RestIdle /\ DistanceInit
SpecDistance == DistanceStart /\ [][DistanceNext]_vars

\* ------------------- putnam_a1_many_sequences.py: compute_sequence
MaxStart == 6
MaxK == 4

\* The size beyond which compute_sequence stops (10**15 in the script), in
\* the scale of the starting values explored here.
SeqLimit == 40

\* math.gcd.
RECURSIVE gcd(_, _)
gcd(a, b) == IF b = 0 THEN a ELSE gcd(b, a % b)

\* v_2(x): how often 2 divides x; infinite for x = 0.
RECURSIVE Halvings(_)
Halvings(x) == IF x % 2 = 0 THEN 1 + Halvings(x \div 2) ELSE 0

v_2_none(x) == IF x = 0 THEN "inf" ELSE 0
v_2(x) == IF x = 0 THEN "inf" ELSE Halvings(x)

\* Lines 38-43 and 56-62: the value appended for the difference diff.
f_of(diff) == IF diff = 0 THEN 0 ELSE diff \div Pow(2, v_2(diff))

\* The loop of lines 45-66 from iteration k on, with m_seq[k-1] = m,
\* n_seq[k-1] = n and f_values = f so far.
RECURSIVE SequenceFrom(_, _, _, _, _)
SequenceFrom(m, n, k, max_k, f) ==
    IF k > max_k THEN f
    ELSE LET g == gcd(2 * m + 1, 2 * n + 1)
             m_k == (2 * m + 1) \div g
             n_k == (2 * n + 1) \div g
             diff == Abs(m_k - n_k)
         IN  IF diff = 0 THEN Append(f, 0)
             ELSE IF m_k > SeqLimit \/ n_k > SeqLimit
                  THEN Append(f, f_of(diff))
                  ELSE SequenceFrom(m_k, n_k, k + 1, max_k,
                                    Append(f, f_of(diff)))

\* compute_sequence(m0, n0, max_k): f_values and k_values.
compute_sequence(m0, n0, max_k) ==
    LET f_values == SequenceFrom(m0, n0, 1, max_k, << f_of(Abs(m0 - n0)) >>)
    IN  [f_values |-> f_values,
         k_values |-> [x \in 1 .. Len(f_values) |-> x - 1]]

\* Lines 91-99: compute_sequence is called for the distinct pairs.
SequenceInit ==
    /\ call_in \in { [fn |-> "compute_sequence", m0 |-> a, n0 |-> b, max_k |-> c] :
                       a \in 1 .. MaxStart, b \in 1 .. MaxStart, c \in 0 .. MaxK }
    /\ call_in.m0 # call_in.n0
    /\ call_out = << >> /\ call_done = FALSE

SequenceApply ==
    /\ ~call_done
    /\ call_out' = compute_sequence(call_in.m0, call_in.n0, call_in.max_k)
    /\ call_done' = TRUE
    /\ UNCHANGED call_in

SequenceNext == SequenceApply /\ CallOnly
SequenceStart == RestIdle /\ SequenceInit
SpecSequence == SequenceStart /\ [][SequenceNext]_vars

\* --------- generate_anomalous_zeeman_final.py: get_allowed_transitions
\* Angular momenta are half-integers: J and mJ are counted in halves, so that
\* J = 1/2 is 1 and J = 3/2 is 3.
MaxJ == 7

\* Lines 71-74: mJ_upper_list.
mJ_upper_list(J_upper) ==
    IF J_upper = 1 THEN << -1, 1 >>
    ELSE IF J_upper = 3 THEN << -3, -1, 1, 3 >>
    ELSE << >>

\* Lines 76-77: mJ_lower_list.
mJ_lower_list(J_lower) == IF J_lower = 1 THEN << -1, 1 >> ELSE << >>

\* Line 83: delta_mJ in [-1, 0, 1].
AnyDelta(delta_mJ) == TRUE
AllowedDelta(delta_mJ) == delta_mJ \in {-2, 0, 2}

\* Lines 80-84 from position a of the upper list and b of the lower list on.
RECURSIVE TransitionsFrom(_, _, _, _)
TransitionsFrom(uppers, lowers, a, b) ==
    IF a > Len(uppers) THEN << >>
    ELSE IF b > Len(lowers) THEN TransitionsFrom(uppers, lowers, a + 1, 1)
    ELSE LET delta_mJ == uppers[a] - lowers[b]
             rest == TransitionsFrom(uppers, lowers, a, b + 1)
         IN  IF AllowedDelta(delta_mJ)
             THEN << << uppers[a], lowers[b], delta_mJ \div 2 >> >> \o rest
             ELSE rest

get_allowed_transitions(J_upper, J_lower) ==
    TransitionsFrom(mJ_upper_list(J_upper), mJ_lower_list(J_lower), 1, 1)

\* test_zeeman_calc.py, lines 35 and 41: the pairs of the D1 and D2 lines.
D1_pairs == << <<-1, -1>>, <<1, -1>>, <<-1, 1>>, <<1, 1>> >>
D2_pairs ==
    << <<-3, -1>>, <<-1, -1>>, <<1, -1>>, <<-1, 1>>, <<1, 1>>, <<3, 1>> >>

TransitionsInit ==
    /\ call_in \in { [fn |-> "get_allowed_transitions",
                      J_upper |-> a, J_lower |-> b] :
                       a \in 0 .. MaxJ, b \in 0 .. MaxJ }
    /\ call_out = << >> /\ call_done = FALSE

TransitionsApply ==
    /\ ~call_done
    /\ call_out' = [transitions |->
                       get_allowed_transitions(call_in.J_upper, call_in.J_lower)]
    /\ call_done' = TRUE
    /\ UNCHANGED call_in

TransitionsNext == TransitionsApply /\ CallOnly
TransitionsStart == RestIdle /\ TransitionsInit
SpecTransitions == TransitionsStart /\ [][TransitionsNext]_vars

\* The run under the scheduling of the interpreter.  The script is one
\* sequential thread that the interpreter keeps executing: while the
\* statement at pc can execute (Runnable: the guards of the actions of Next),
\* control does not rest there for ever.
Phases == {"equil", "equil_decide", "sweep", "sweep_decide", "measure",
           "count", "normalize", "done"}
Runnable ==
    \/ pc = "equil" /\ (step < n_steps \/ step = n_steps)
    \/ pc = "sweep" /\ (step < n_sweep \/ step = n_sweep)
    \/ pc \in {"equil_decide", "sweep_decide", "measure", "count", "normalize"}
Advance == Runnable /\ pc' \in Phases

\* Runnable is the enabling condition of Next.
RunnableIsEnabled == Runnable <=> ENABLED <<Next>>_vars
FairSpec == Spec /\ WF_pc(Advance)

\* ------------------------------------------------------------------ claims
\* The states between trial moves and during a measurement.
BetweenMoves == pc \in {"equil", "sweep", "measure", "count", "normalize"}

\* A trial has been decided and its variables are intact.
TrialDone == outcome \in {"accepted", "rejected"}

\* The ensemble the trial proposed: the moved particle at its wrapped position.
Proposed == [before EXCEPT ![i] = TrialPosition(before[i], move)]

\* C1: between trial moves and during measurements every coordinate of every
\* particle satisfies 0 <= coordinate < L.
C1_PositionsInBox ==
    BetweenMoves =>
        \A k \in DOMAIN positions : \A a \in 1 .. 2 :
            0 <= positions[k][a] /\ positions[k][a] < L

\* C2: a trial whose dE is <= 0 is accepted whatever the draw is: the moved
\* particle keeps its wrapped trial position.
C2_DownhillAccepted ==
    (TrialDone /\ ~dE.nan /\ dE.val <= 0) =>
        (outcome = "accepted" /\ positions = Proposed)

C2_Witness ==
    /\ outcome = "accepted" /\ ~dE.nan /\ dE.val < 0
    /\ positions # before

\* C3: a trial with dE > 0 is kept exactly when the draw u is below
\* exp(-beta * dE), and reverted otherwise.
C3_UphillByDraw ==
    (TrialDone /\ Gt0(dE)) =>
        IF u < ExpNeg(beta * dE.val)
        THEN outcome = "accepted" /\ positions = Proposed
        ELSE outcome = "rejected" /\ positions = before

C3_Witness ==
    /\ outcome = "accepted" /\ Gt0(dE)
    /\ u < ExpNeg(beta * dE.val)
    /\ positions # before

\* C4: after a rejected trial the ensemble is the ensemble before the trial.
C4_RejectRestores == outcome = "rejected" => positions = before

C4_Witness ==
    /\ outcome = "rejected"
    /\ Proposed # before
    /\ positions = before

\* C5: a trial changes the position of no particle but the selected one, and
\* the ensemble always holds N particles.
C5_OneParticlePerTrial ==
    /\ DOMAIN positions = Particles
    /\ Cardinality(DOMAIN positions) = N
    /\ Cardinality({k \in Particles : positions[k] # before[k]}) <= 1
    /\ outcome # "none" =>
          \A k \in Particles \ {i} : positions[k] = before[k]

C5_Witness ==
    /\ outcome = "accepted"
    /\ positions[i] # before[i]
    /\ \A k \in Particles \ {i} : positions[k] = before[k]

\* No two particles of the configuration are at minimum-image distance 0.
Apart(pos) == \A pr \in PairsOf(pos) : Dist2(pos[pr[1]], pos[pr[2]]) # 0

EnergyDifference == FSub(TotalEnergy(e_after), TotalEnergy(e_before))

NearestEven(D, box, out) ==
    \E n \in -(2 * MaxDisp) .. (2 * MaxDisp) :
        /\ out = D - n * box
        /\ 2 * Abs(out) <= box
        /\ 2 * Abs(out) = box => n % 2 = 0

\* C7 (as stated): for every displacement D and box length L > 0,
\* minimum_image(D, L) is D - L * round(D / L) (halves to even) and has
\* absolute value <= L / 2 on each axis.
C7_ImageWithinHalfBox ==
    mi_done => \A a \in 1 .. 2 : NearestEven(mi_r[a], mi_box, mi_out[a])

\* C7 (amended): the same, for the displacements with |D| <= L on each axis.
C7_ImageWithinHalfBoxInRange ==
    (mi_done /\ \A a \in 1 .. 2 : Abs(mi_r[a]) <= mi_box) =>
        \A a \in 1 .. 2 : NearestEven(mi_r[a], mi_box, mi_out[a])

C7_Witness ==
    /\ mi_done
    /\ 2 * mi_r[1] = mi_box /\ mi_out[1] = mi_r[1]
    /\ 2 * Abs(mi_r[2]) > mi_box /\ Abs(mi_r[2]) <= mi_box
    /\ mi_out[2] # mi_r[2]

\* The distance r = sqrt(r2) lies in bin b: b * dr <= r < (b + 1) * dr.
InBin(r2, b) ==
    /\ b * b * dr_num * dr_num <= r2 * dr_den * dr_den
    /\ r2 * dr_den * dr_den < (b + 1) * (b + 1) * dr_num * dr_num

PairDist2(pr) == Dist2(positions[pr[1]], positions[pr[2]])
PairsBelowHalf == {pr \in PairsOf(positions) : 4 * PairDist2(pr) < L * L}

RECURSIVE SumOver(_, _)
SumOver(h, dom) ==
    IF dom = {} THEN 0
    ELSE LET b == CHOOSE x \in dom : TRUE
         IN  h[b] + SumOver(h, dom \ {b})

\* What the finished measurement added to bin b: 2 for every unordered pair
\* below L / 2 whose distance lies in bin b.
AddedTwicePerPair ==
    /\ DOMAIN g_hist = DOMAIN hist0
    /\ \A b \in DOMAIN g_hist :
          g_hist[b] = hist0[b]
              + 2 * Cardinality({pr \in PairsBelowHalf : InBin(PairDist2(pr), b)})

\* C8 (as stated): in each sample every unordered pair with r < L / 2 adds
\* exactly 2 to bin floor(r / dr), none is left uncounted, and a pair with
\* r >= L / 2 adds nothing.
C8_EveryPairBelowHalfCounted ==
    pc = "count" =>
        /\ AddedTwicePerPair
        /\ SumOver(g_hist, DOMAIN g_hist) - SumOver(hist0, DOMAIN hist0)
              = 2 * Cardinality(PairsBelowHalf)

\* C8 (amended): in each sample every unordered pair with r < L / 2 and
\* floor(r / dr) < len(g_hist) adds exactly 2 to bin floor(r / dr); every
\* other pair adds nothing.
C8_PairsInRangeCounted == pc = "count" => AddedTwicePerPair

C8_Witness ==
    /\ pc = "count"
    /\ \E b \in DOMAIN g_hist :
          /\ g_hist[b] = hist0[b] + 2
          /\ \E pr \in PairsBelowHalf : InBin(PairDist2(pr), b)

\* (L / 2) / dr for L = b_box and dr = b_num / b_den: its floor, and whether
\* it is a whole number.
FloorBins == (b_box * b_den) \div (2 * b_num)
WholeBins == (b_box * b_den) % (2 * b_num) = 0

\* C9 (as stated): g_hist has length floor((L / 2) / dr) for every L > 0 and
\* dr > 0, also when (L / 2) / dr is a whole number.
C9_HistLenIsFloor == b_done => b_len = FloorBins

\* C9 (amended): g_hist has length floor((L / 2) / dr) when (L / 2) / dr is
\* not a whole number, and one less than that when it is.
C9_HistLenFloorUnlessWhole ==
    b_done => b_len = IF WholeBins THEN FloorBins - 1 ELSE FloorBins

C9_Witness ==
    /\ b_done /\ WholeBins
    /\ FloorBins >= 2 /\ b_len = FloorBins - 1

MovesAfter(done, extra) == n_steps + n_sweep * done + extra

C12_EquilibrationUnmeasured ==
    /\ pc \in {"equil", "equil_decide"} =>
          /\ g_hist = << >> /\ n_configs = 0 /\ measured = 0
          /\ moves = step /\ step <= n_steps
    /\ (pc = "sweep" /\ sample = 0 /\ step = 0) =>
          /\ moves = n_steps /\ n_configs = 0 /\ measured = 0
          /\ \A b \in DOMAIN g_hist : g_hist[b] = 0

C12_Witness ==
    /\ pc = "sweep" /\ sample = 0 /\ step = 0
    /\ moves = n_steps /\ n_steps > 0
    /\ g_hist # << >> /\ \A b \in DOMAIN g_hist : g_hist[b] = 0

\* C13: under every sequence of draws the run performs exactly
\* n_steps + n_sweep * n_sample trial moves and n_sample measurements and then
\* finishes the normalization.
C13_RunCompletesBudget ==
    <>(/\ pc = "done"
       /\ moves = MovesAfter(n_sample, 0)
       /\ measured = n_sample)

C13_Witness ==
    /\ pc = "done" /\ g_sim # << >>
    /\ moves = MovesAfter(n_sample, 0) /\ measured = n_sample

\* Four times 4 * epsilon * ((sigma / r)**12 - (sigma / r)**6) at r * r = v, in
\* fixed point: each power term rounded down once, at four times the
\* resolution of the energies.
Unshifted4(v) ==
    (16 * epsilon * FP * Pow(sigma, 12)) \div Pow(v, 6)
    - (16 * epsilon * FP * Pow(sigma, 6)) \div Pow(v, 3)

\* C14: for 0 < r < r_cut lj_potential(r) is the unshifted expression at r
\* minus the unshifted expression at r_cut (up to the rounding of the four
\* power terms, 6 quarter units); for r >= r_cut, r = r_cut included, it is
\* exactly 0.
C14_ShiftedTruncatedPotential ==
    p_done =>
        /\ p_r2 >= r_cut * r_cut => p_out = Num(0)
        /\ (0 < p_r2 /\ p_r2 < r_cut * r_cut) =>
              /\ ~p_out.nan
              /\ Abs(4 * p_out.val
                     - (Unshifted4(p_r2) - Unshifted4(r_cut * r_cut)))
                    <= 6

C14_Witness ==
    /\ p_done
    /\ p_r2 = r_cut * r_cut /\ p_out = Num(0)
    /\ 0 < p_near /\ p_near < sigma * sigma
    /\ ~p_out_near.nan /\ p_out_near.val > 0

\* InTail, the attractive tail: the squared distances v below the cutoff with
\* v^3 >= 2 * sigma^6, where the unshifted potential rises with v at a rate
\* of at most 12 * epsilon * sigma^6 / v^4.
InTail(v) == v < r_cut * r_cut /\ Pow(v, 3) >= 2 * Pow(sigma, 6)

\* C15: the constant subtracted is the unshifted potential at r_cut, so the
\* potential has no jump at the cutoff: it is 0 from r_cut on, and below
\* r_cut it rises to 0, within the tail's rate times the distance to r_cut.
C15_ContinuousAtCutoff ==
    p_done =>
        /\ p_r2 >= r_cut * r_cut => p_out = Num(0)
        /\ InTail(p_r2) =>
              /\ ~p_out.nan /\ p_out.val <= 1
              /\ (-p_out.val - 2) * Pow(p_r2, 4)
                    <= 12 * epsilon * FP * Pow(sigma, 6)
                         * (r_cut * r_cut - p_r2)
        /\ (InTail(p_r2) /\ InTail(p_near) /\ p_r2 <= p_near) =>
              p_out.val <= p_out_near.val + 2

C15_Witness ==
    /\ p_done
    /\ p_r2 = r_cut * r_cut - 1 /\ p_near = r_cut * r_cut
    /\ ~p_out.nan /\ p_out.val < 0 /\ p_out_near = Num(0)

\* ideal is pi * (r_upper^2 - r_lower^2) * rho for bin b, with r_lower = b * dr,
\* r_upper = (b + 1) * dr, rho = N / L^2 and pi = 355 / 113, up to the rounding
\* of the fixed-point steps: 3 units, and the last digit of rho.
IsIdealPairs(ideal, b) ==
    LET scale == 113 * dr_den * dr_den * L * L
        exact == 355 * ((b + 1) * (b + 1) - b * b) * dr_num * dr_num * N * FP
    IN  Abs(ideal * scale - exact) <= 3 * scale + exact \div Rho(N, L)

\* q is the quotient count / (divisor / FP), rounded down to the fixed point.
IsQuotient(q, count, divisor) ==
    /\ q.kind = "finite" /\ q.divisor = divisor /\ divisor > 0
    /\ q.val * divisor <= count * FP * FP
    /\ count * FP * FP < (q.val + 1) * divisor

\* The squared distances (below L / 2) that the sampling phase puts in bin b
\* lie between the edges r_lower and r_upper that the normalizer uses for b.
SameEdges(b) ==
    \A r2 \in 0 .. ((L * L) \div 4) :
        BinIndex(r2, dr_num, dr_den) = b =>
            /\ r_lower(b, dr_num) * r_lower(b, dr_num) <= r2 * dr_den * dr_den
            /\ r2 * dr_den * dr_den < r_upper(b, dr_num) * r_upper(b, dr_num)

TrialSeparations ==
    UNION { { Dist2(before[i], before[k]), Dist2(Proposed[i], before[k]) } :
              k \in Particles \ {i} }

\* C17: lj_potential is never evaluated at r = 0: no two distinct particles
\* ever occupy the same position, and no trial evaluates the potential at a
\* zero separation.
C17_NeverZeroSeparation ==
    /\ \A a, b \in Particles : a # b => positions[a] # positions[b]
    /\ outcome \in {"pending", "accepted", "rejected"} =>
          0 \notin TrialSeparations

\* C18: a trial whose dE sum evaluated lj_potential at a zero separation is
\* not decided: no accept/reject outcome is reached with an undefined energy.
C18_ZeroSeparationStopsRun ==
    TrialDone => (0 \notin TrialSeparations /\ ~dE.nan)

\* C19: the normalizer divides by no zero: a bin with ideal_pairs = 0 is not
\* divided.
C19_NoDivisionByZero ==
    nm_done => \A b \in DOMAIN nm_out : nm_out[b].divisor # 0

\* One measurement of the configuration pos added to hist: lines 99-108 for
\* the pairs from (a, b) on, in loop order.
RECURSIVE MeasuredFrom(_, _, _, _)
MeasuredFrom(hist, pos, a, b) ==
    IF a >= Cardinality(DOMAIN pos) - 1 THEN hist
    ELSE IF b >= Cardinality(DOMAIN pos)
         THEN MeasuredFrom(hist, pos, a + 1, a + 2)
         ELSE MeasuredFrom(Binned(hist, Dist2(pos[a], pos[b])), pos, a, b + 1)

\* C20: a measurement changes the histogram only (and then the counter): the
\* positions are those before the measurement, the increments are a function
\* of the configuration, and measuring it again would add the same increments.
C20_MeasurementNonDestructive ==
    /\ pc \in {"measure", "count"} => positions = before
    /\ pc = "count" =>
          /\ g_hist = MeasuredFrom(hist0, before, 0, 1)
          /\ LET again == MeasuredFrom(g_hist, positions, 0, 1)
             IN  \A b \in DOMAIN g_hist :
                     again[b] - g_hist[b] = g_hist[b] - hist0[b]

C20_Witness ==
    /\ pc = "count" /\ positions = before
    /\ \E b \in DOMAIN g_hist : g_hist[b] > hist0[b]
    /\ \E a \in Particles : \E c \in 1 .. 2 : positions[a][c] # 0

\* C21: the trial proposal is symmetric: when one displacement with each axis
\* in [-delta, delta], then the wrap, takes a particle from p to p', one such
\* displacement takes it from p' back to p.
C21_ProposalSymmetric ==
    call_done =>
        \E m \in MovesUpTo(call_in.d) : TrialPosition(call_out.p, m) = call_in.p

\* The Boltzmann weight exp(-beta * E) of configuration b relative to that of
\* configuration a, as a fraction << numerator, denominator >>, for finite
\* energies Ea and Eb.
WeightRatio(Ea, Eb) ==
    IF Eb.val >= Ea.val
    THEN << ExpNeg(beta * (Eb.val - Ea.val)), FP >>
    ELSE << FP, ExpNeg(beta * (Ea.val - Eb.val)) >>

\* acc * weight(a) = acc_back * weight(b).  A configuration with two particles
\* at the same place has infinite energy, so weight 0.
Balanced(a, b, acc, acc_back) ==
    IF Apart(a) /\ Apart(b)
    THEN LET w == WeightRatio(TotalEnergy(a), TotalEnergy(b))
         IN  acc * w[2] = acc_back * w[1]
    ELSE IF Apart(a) THEN acc = 0
    ELSE IF Apart(b) THEN acc_back = 0
    ELSE TRUE

\* C22: for any two configurations s and s' that differ by one trial move,
\* acceptance(s -> s') * exp(-beta * E(s)) =
\* acceptance(s' -> s) * exp(-beta * E(s')).
C22_DetailedBalance ==
    call_done =>
        Balanced(call_in.s, call_out.s2, call_out.acc, call_out.acc_back)

\* C22 on the configurations without coincident particles.
DetailedBalanceApart ==
    (call_done /\ Apart(call_in.s) /\ Apart(call_out.s2)) =>
        Balanced(call_in.s, call_out.s2, call_out.acc, call_out.acc_back)

DetailedBalanceApartSeen ==
    /\ call_done /\ Apart(call_in.s) /\ Apart(call_out.s2)
    /\ 0 < call_out.acc /\ call_out.acc < FP /\ call_out.acc_back = FP

\* What a run shows: its positions, decisions, histogram and g_sim, and where
\* it stands.
Observed ==
    [positions |-> positions, old_pos |-> old_pos, dE |-> dE,
     outcome |-> outcome, g_hist |-> g_hist, n_configs |-> n_configs,
     g_sim |-> g_sim, pc |-> pc, step |-> step, sample |-> sample]

\* The one state that can follow the current one when the random values the
\* step consumes are k (the particle), m (the displacement) and draw (the
\* acceptance draw).
Following(k, m, draw) ==
    LET now == Observed
        trial == Displaced(positions, k, m)
        kept == ~Rejects(dE, draw)
        proposed(next) ==
            [now EXCEPT !.positions = trial, !.old_pos = positions[k],
                        !.dE = DeltaE(trial, k, positions[k]),
                        !.outcome = "pending", !.pc = next]
        decided(next) ==
            [now EXCEPT !.positions =
                            IF kept THEN positions
                            ELSE Restored(positions, i, old_pos),
                        !.outcome = IF kept THEN "accepted" ELSE "rejected",
                        !.step = step + 1, !.pc = next]
    IN  CASE pc = "equil" /\ step < n_steps -> proposed("equil_decide")
          [] pc = "equil" /\ step >= n_steps ->
                [now EXCEPT !.g_hist = zeros(HistLen(L, dr_num, dr_den)),
                            !.n_configs = 0, !.sample = 0, !.step = 0,
                            !.pc = IF n_sample > 0 THEN "sweep"
                                   ELSE "normalize"]
          [] pc = "equil_decide" -> decided("equil")
          [] pc = "sweep" /\ step < n_sweep -> proposed("sweep_decide")
          [] pc = "sweep" /\ step >= n_sweep ->
                [now EXCEPT !.outcome = "none", !.pc = "measure"]
          [] pc = "sweep_decide" -> decided("sweep")
          [] pc = "measure" ->
                [now EXCEPT !.g_hist =
                                Binned(g_hist, Dist2(positions[i], positions[j])),
                            !.pc = IF j + 1 < N \/ i + 1 < N - 1
                                   THEN "measure" ELSE "count"]
          [] pc = "count" ->
                [now EXCEPT !.n_configs = n_configs + 1,
                            !.sample = sample + 1, !.step = 0,
                            !.pc = IF sample + 1 < n_sample THEN "sweep"
                                   ELSE "normalize"]
          [] pc = "normalize" ->
                [now EXCEPT !.g_sim = Normalized(g_hist, n_configs, N, L,
                                                 dr_num, dr_den),
                            !.outcome = "none", !.pc = "done"]
          [] OTHER -> now

C24_OnePairPerBin ==
    pc = "done" =>
        /\ DOMAIN r_centers = DOMAIN g_hist
        /\ DOMAIN g_sim = DOMAIN g_hist
        /\ \A b \in DOMAIN r_centers :
              /\ r_centers[b] = 2 * b * dr_num + dr_num
              /\ 2 * r_lower(b, dr_num) < r_centers[b]
              /\ r_centers[b] < 2 * r_upper(b, dr_num)
        /\ \A a, b \in DOMAIN r_centers : a < b => r_centers[a] < r_centers[b]

C24_Witness ==
    /\ pc = "done"
    /\ Cardinality(DOMAIN g_hist) >= 2
    /\ DOMAIN r_centers = DOMAIN g_sim
    /\ r_centers[0] < r_centers[1]
    /\ \E b \in DOMAIN g_sim : g_sim[b].kind = "finite"

\* Grid value k of np.linspace(0.9 * sigma, L / 2, TheoryPoints), in tenths,
\* from the constants alone.
GridPoint(k) == 9 * sigma + (k * (5 * L - 9 * sigma)) \div (TheoryPoints - 1)

\* C25: g_theory is exp(-beta * lj_potential(r)) over the grid from
\* 0.9 * sigma to L / 2 and depends on the constants only: it is the same in
\* every run, whatever was drawn, accepted or counted, and computing it
\* changes neither the positions nor the histogram.
C25_TheoryFromConstants ==
    pc = "done" =>
        /\ DOMAIN g_theory = 0 .. (TheoryPoints - 1)
        /\ \A k \in DOMAIN g_theory :
              g_theory[k] =
                  BoltzmannFactor(
                      lj_potential((GridPoint(k) * GridPoint(k)) \div 100))
        /\ positions = before
        /\ g_hist = hist0

C25_Witness ==
    /\ pc = "done" /\ moves > 0
    /\ \E b \in DOMAIN g_hist : g_hist[b] > 0
    /\ g_theory[0].val < FP
    /\ g_theory[TheoryPoints - 1].val >= FP

\* C26: for distinct positive m0 and n0 and every max_k >= 0 the f values
\* that compute_sequence returns do not increase: f(k + 1) <= f(k) for every
\* consecutive pair returned (one value per k returned).
C26_SequenceNonIncreasing ==
    call_done =>
        LET f == call_out.f_values
        IN  /\ Len(f) >= 1 /\ Len(f) <= call_in.max_k + 1
            /\ Len(call_out.k_values) = Len(f)
            /\ \A k \in 1 .. (Len(f) - 1) : f[k + 1] <= f[k]

C26_Witness ==
    /\ call_done /\ call_in.m0 # call_in.n0
    /\ Len(call_out.f_values) >= 3
    /\ call_out.f_values[2] < call_out.f_values[1]
    /\ call_out.f_values[3] = call_out.f_values[2]

\* The elements of a sequence.
Range(q) == {q[x] : x \in DOMAIN q}

\* mJ = -J, -J + 1, ..., J (in halves).
Projections(J) == {m \in (-J) .. J : (m + J) % 2 = 0}

\* The pairs with mJ_upper - mJ_lower in {-1, 0, 1}, each with its difference.
SelectionRule(J_upper, J_lower) ==
    { << pr[1], pr[2], (pr[1] - pr[2]) \div 2 >> :
        pr \in { q \in Projections(J_upper) \X Projections(J_lower) :
                   Abs(q[1] - q[2]) <= 2 } }

ReturnsSelectionRule ==
    LET t == call_out.transitions
    IN  /\ Range(t) = SelectionRule(call_in.J_upper, call_in.J_lower)
        /\ Len(t) = Cardinality(Range(t))

C28_SweepTrialIsEquilTrial ==
    call_done =>
        /\ call_out.sweep.dE = call_out.equil.dE
        /\ call_out.sweep.rejected = call_out.equil.rejected
        /\ call_out.sweep.positions = call_out.equil.positions

C28_Witness ==
    /\ call_done
    /\ call_out.sweep.rejected /\ call_out.equil.rejected
    /\ Gt0(call_out.equil.dE) /\ call_out.move # << 0, 0 >>
    /\ call_out.sweep.positions = call_in.positions

\* The difference x - y is computed without rounding and is at most one box
\* length.
ExactDifference(x, y) == Representable(x - y) /\ Abs(x - y) <= L

\* w is x displaced by whole box lengths, and the differences of x and of w
\* with y are exact.
ExactImage(x, w, y) ==
    /\ (w - x) % L = 0
    /\ ExactDifference(x, y) /\ ExactDifference(w, y)

\* C29 (as stated): the minimum-image distance from u to v equals the distance
\* from v to u and the distance from u shifted by (a * L, b * L) to v, for all
\* u, v and integers a, b; wrapping a particle into [0, L) changes none of its
\* pair distances.
C29_DistanceSymmetricPeriodic ==
    call_done =>
        /\ call_out.vu = call_out.uv
        /\ call_out.moved_v = call_out.uv
        /\ call_out.wrapped_v = call_out.uv

\* C29 (amended): the distance from u to v equals the distance from v to u
\* for all u, v; it equals the distance from the shifted, or wrapped, u to v
\* whenever the shift or wrap and the coordinate differences are computed
\* without rounding and the differences are at most L.
C29_DistanceSymmetricPeriodicExact ==
    call_done =>
        /\ call_out.vu = call_out.uv
        /\ (\A c \in 1 .. 2 :
               ExactImage(call_in.u[c], call_out.moved[c], call_in.v[c]))
              => call_out.moved_v = call_out.uv
        /\ (\A c \in 1 .. 2 :
               ExactImage(call_in.u[c], call_out.wrapped[c], call_in.v[c]))
              => call_out.wrapped_v = call_out.uv

C29_Witness ==
    /\ call_done
    /\ call_in.shift[1] # 0 /\ call_out.moved # call_in.u
    /\ \A c \in 1 .. 2 :
          ExactImage(call_in.u[c], call_out.moved[c], call_in.v[c])
    /\ call_out.wrapped # call_in.u
    /\ \A c \in 1 .. 2 :
          ExactImage(call_in.u[c], call_out.wrapped[c], call_in.v[c])
    /\ call_out.uv > 0
    /\ call_out.moved_v = call_out.uv /\ call_out.wrapped_v = call_out.uv
    /\ call_out.vu = call_out.uv

\* C30: at every point of the sampling phase every histogram bin is a
\* non-negative even number, and after k completed samples the sum of the
\* bins is at most k * N * (N - 1): each sample adds at most N * (N - 1).
C30_EvenBinsBoundedSum ==
    pc \notin {"equil", "equil_decide"} =>
        /\ \A b \in DOMAIN g_hist : g_hist[b] >= 0 /\ g_hist[b] % 2 = 0
        /\ SumOver(g_hist, DOMAIN g_hist)
              <= (IF pc \in {"measure", "count"}
                  THEN n_configs + 1 ELSE n_configs) * N * (N - 1)
        /\ pc \in {"measure", "count"} =>
              SumOver(g_hist, DOMAIN g_hist) - SumOver(hist0, DOMAIN hist0)
                  <= N * (N - 1)

C30_Witness ==
    /\ pc = "done" /\ n_configs = n_sample /\ n_configs > 0
    /\ SumOver(g_hist, DOMAIN g_hist) = n_configs * N * (N - 1)
    /\ \E b \in DOMAIN g_hist : g_hist[b] >= 2 /\ g_hist[b] % 2 = 0
====
